---- MODULE Spec2Model ----
(***************************************************************************)
(* The C-callable boundary layer of cosmic-text (src/src/lib.rs):          *)
(* the ByteBuffer transfer protocol, the opaque handle lifecycle, the      *)
(* attribute marshal of buffer_set_text, the layout-run callback protocol  *)
(* and the rasterized-image transfer.                                      *)
(*                                                                         *)
(* Integer widths are scaled: the i32 fields of ByteBuffer are modelled as *)
(* IntBits-bit two's-complement integers and usize as 2*IntBits-bit        *)
(* unsigned integers (TLC's own integers are 32 bits wide, so a usize      *)
(* beyond i32::MAX cannot be written at the program's widths).  Every      *)
(* conversion keeps its code: try_from checks the range, `as` truncates,   *)
(* `*` on i32 panics with overflow checks and wraps without.               *)
(***************************************************************************)
EXTENDS Integers, Sequences, FiniteSets, TLC

\* ------------------------------------------------------------------ bounds
IntBits == 4
MaxLen == 2
MaxSpare == 1
MaxAddr == 3
MaxUnits == 2
MaxText == 3
MaxHandles == 3
MaxFonts == 2
MaxRefs == 2

\* --------------------------------------------------------------- variables
VARIABLES
    heap,             \* native heap: address -> allocation
    status,           \* "ok" | "panic" (process aborted) | "fault" (undefined behaviour observed)
    overflow_checks,  \* the build: arithmetic overflow checked (debug) or wrapping (release)
    vec,              \* a native Vec<T> about to cross the boundary, or None
    input,            \* the Vec<T> last handed to from_vec / from_vec_struct, with its elements
    bb,               \* the ByteBuffer value held by the foreign host, or None
    origin,           \* what produced bb: "from_vec" | "from_vec_struct" | "foreign" | "none"
    rebuilt,          \* the Vec<T> rebuilt by destroy_into_vec / destroy_into_vec_struct, or None
    last,             \* the last boundary call: its name, argument and the heap it started from
    objs,             \* the boxed engine objects: handle -> object
    strong,           \* Arc<Font> strong counts: catalog handle -> font id -> count
    out_image,        \* the host's SwashImage slot that outSwashImage points to
    out_live,         \* the slot holds an image that swashimage_free has not taken yet
    buf_text,         \* the text of the buffer: the String Buffer::set_text received last
    buf_attrs,        \* the Attrs Buffer::set_text received, or None
    buf_shaping,      \* the Shaping Buffer::set_text received
    buf_width,        \* the width Buffer::set_size received
    buf_runs,         \* the layout runs of the buffer, in the order layout_runs() yields them
    family_read,      \* buffer_set_text read the memory prim_attrs.family points to
    pc,               \* buffer_layout_runs: "idle" | "loop" | "callback"
    cursor,           \* buffer_layout_runs: the runs the iterator has yielded
    delivered         \* what the host's callback has read, through the accessors, per invocation

bufVars == <<vec, input, bb, origin, rebuilt>>
handleVars == <<objs, strong>>
imgVars == <<out_image, out_live>>
textVars == <<buf_text, buf_attrs, buf_shaping, buf_width, buf_runs, family_read, pc, cursor, delivered>>
vars == <<heap, status, overflow_checks, last, bufVars, handleVars, imgVars, textVars>>

\* ------------------------------------------------------------ integer types
I32Max == 2^(IntBits - 1) - 1
I32Min == -(2^(IntBits - 1))
I32Mod == 2^IntBits
USizeMod == 2^(2 * IntBits)

\* `x as i32`: keeps the low bits, reinterpreted as signed.
AsI32(x) ==
    LET m == x % I32Mod IN IF m > I32Max THEN m - I32Mod ELSE m

\* `x as usize` of an i32: sign-extends, then reinterprets as unsigned.
AsUsize(x) == x % USizeMod

Ok(v) == [ok |-> TRUE, v |-> v]
Panic == [ok |-> FALSE, v |-> 0]

\* i32::try_from(usize).expect(..)
I32TryFrom(n) == IF n <= I32Max THEN Ok(n) ELSE Panic

\* usize::try_from(i32).expect(..)   (self.length.try_into())
UsizeTryFrom(i) == IF i >= 0 THEN Ok(i) ELSE Panic

\* i32 * i32: panics on overflow when overflow checks are on, wraps otherwise.
MulI32(a, b, checks) ==
    LET p == a * b IN
    IF p >= I32Min /\ p <= I32Max THEN Ok(p)
    ELSE IF checks THEN Panic
    ELSE Ok(AsI32(p))

\* ------------------------------------------------------------------ memory
Byte == {0, 1}
ElemSizes == {1, 2, 4}
Addr == 1..MaxAddr

None == [kind |-> "none"]
Null == [kind |-> "null", a |-> 0]
\* Vec::as_mut_ptr of a Vec without allocation: NonNull::dangling(), never null.
Dangling == [kind |-> "dangling", a |-> 0]
HeapPtr(a) == [kind |-> "heap", a |-> a]

FreeBlock == [live |-> FALSE, data |-> <<>>, cap |-> 0, elem |-> 0]
Block(data, cap, elem) == [live |-> TRUE, data |-> data, cap |-> cap, elem |-> elem]

FreeAddrs(h) == {a \in Addr : ~h[a].live}
LiveAddrs(h) == {a \in Addr : h[a].live}

\* A Vec<T>: pointer, length and capacity in elements, size_of::<T>().
Vec(ptr, len, cap, elem) ==
    [kind |-> "vec", ptr |-> ptr, len |-> len, cap |-> cap, elem |-> elem]

\* vec![]
EmptyVec(elem) == Vec(Dangling, 0, 0, elem)

\* The elements a Vec owns.
VecData(h, v) ==
    IF v.ptr.kind = "heap" /\ h[v.ptr.a].live /\ v.len <= Len(h[v.ptr.a].data)
    THEN SubSeq(h[v.ptr.a].data, 1, v.len)
    ELSE <<>>

\* A Vec describes its allocation: what Vec::from_raw_parts requires.
VecValid(h, v) ==
    IF v.cap = 0 THEN v.len = 0
    ELSE /\ v.ptr.kind = "heap"
         /\ h[v.ptr.a].live
         /\ h[v.ptr.a].cap = v.cap
         /\ h[v.ptr.a].elem = v.elem
         /\ v.len <= Len(h[v.ptr.a].data)

\* drop(Vec<T>): returns the allocation when there is one.  Deallocating with a
\* capacity or element type other than the allocation's is undefined behaviour:
\* the block is released all the same, or the process faults.
DropVec(h, v) ==
    IF v.cap = 0 \/ v.ptr.kind # "heap"
    THEN {[heap |-> h, status |-> "ok"]}
    ELSE LET freed == [heap |-> [h EXCEPT ![v.ptr.a] = FreeBlock], status |-> "ok"] IN
         IF VecValid(h, v) THEN {freed}
         ELSE {freed, [heap |-> h, status |-> "fault"]}

\* The vectors the native side hands over: every short element sequence, and
\* one filled sequence of each edge length up to past the usize->i32 wrap.
RECURSIVE SeqsUpTo(_)
SeqsUpTo(n) ==
    IF n = 0 THEN {<<>>}
    ELSE LET s == SeqsUpTo(n - 1) IN
         s \cup {Append(x, b) : x \in {y \in s : Len(y) = n - 1}, b \in Byte}

Filled(n) == [i \in 1..n |-> i % 2]
\* The lengths at which a conversion changes its answer: where the byte count of
\* 4-, 2- and 1-byte elements passes i32::MAX, and where `as i32` wraps to 0.
EdgeLens ==
    {I32Max \div 4, I32Max \div 4 + 1, I32Max \div 2, I32Max \div 2 + 1,
     I32Max - 1, I32Max, I32Max + 1, I32Mod - 1, I32Mod, I32Mod + 1}
VecInputs ==
    SeqsUpTo(MaxLen) \cup {Filled(n) : n \in EdgeLens}

\* An allocation of some other owner, which no operation here is handed.
Bystander == Block(<<1>>, 1, 1)

\* -------------------------------------------------------------- ByteBuffer
ByteBuffer(ptr, length, capacity) ==
    [kind |-> "bb", ptr |-> ptr, length |-> length, capacity |-> capacity]

\* ByteBuffer::from_vec with `as i32` casts in place of the checked conversions.
from_vec_cast(bytes) ==
    Ok(ByteBuffer(bytes.ptr, AsI32(bytes.len), AsI32(bytes.cap)))

\* ByteBuffer::from_vec with the capacity taken from the length: what
\* into_boxed_slice / shrink_to_fit before the handoff would produce.
from_vec_shrunk(bytes) ==
    LET length == I32TryFrom(bytes.len) IN
    IF ~length.ok THEN Panic
    ELSE Ok(ByteBuffer(bytes.ptr, length.v, length.v))

\* ByteBuffer::from_vec
from_vec(bytes) ==
    LET length == I32TryFrom(bytes.len)
        capacity == I32TryFrom(bytes.cap) IN
    IF ~length.ok THEN Panic
    ELSE IF ~capacity.ok THEN Panic
    ELSE Ok(ByteBuffer(bytes.ptr, length.v, capacity.v))

\* ByteBuffer::from_vec_struct::<T>
from_vec_struct(bytes, checks) ==
    LET element_size == AsI32(bytes.elem)
        length == MulI32(AsI32(bytes.len), element_size, checks)
        capacity == MulI32(AsI32(bytes.cap), element_size, checks) IN
    IF ~length.ok THEN Panic
    ELSE IF ~capacity.ok THEN Panic
    ELSE Ok(ByteBuffer(bytes.ptr, length.v, capacity.v))

\* ByteBuffer::destroy_into_vec with the fields converted before the null test.
destroy_into_vec_convert_first(self) ==
    LET capacity == UsizeTryFrom(self.capacity)
        length == UsizeTryFrom(self.length) IN
    IF ~capacity.ok THEN Panic
    ELSE IF ~length.ok THEN Panic
    ELSE IF self.ptr = Null THEN Ok(EmptyVec(1))
    ELSE Ok(Vec(self.ptr, length.v, capacity.v, 1))

\* ByteBuffer::destroy_into_vec
destroy_into_vec(self) ==
    IF self.ptr = Null THEN Ok(EmptyVec(1))
    ELSE LET capacity == UsizeTryFrom(self.capacity)
             length == UsizeTryFrom(self.length) IN
         IF ~capacity.ok THEN Panic
         ELSE IF ~length.ok THEN Panic
         ELSE Ok(Vec(self.ptr, length.v, capacity.v, 1))

\* ByteBuffer::destroy_into_vec_struct::<T>, T of size elem
destroy_into_vec_struct(self, elem, checks) ==
    IF self.ptr = Null THEN Ok(EmptyVec(elem))
    ELSE LET element_size == AsI32(elem)
             length == MulI32(self.length, element_size, checks)
             capacity == MulI32(self.capacity, element_size, checks) IN
         IF ~length.ok THEN Panic
         ELSE IF ~capacity.ok THEN Panic
         ELSE Ok(Vec(self.ptr, AsUsize(length.v), AsUsize(capacity.v), elem))

\* ByteBuffer::destroy: drop(self.destroy_into_vec()); the outcomes of the call.
destroy(h, self) ==
    LET v == destroy_into_vec(self) IN
    IF ~v.ok THEN {[heap |-> h, status |-> "panic"]}
    ELSE DropVec(h, v.v)

Call(op, arg) == [op |-> op, arg |-> arg, heap |-> heap]

\* ------------------------------------------------------------ engine objects
Handles == 1..MaxHandles
NullHandle == 0
FontIds == 1..MaxFonts

\* A Box<FontSystem | SwashCache | Metrics | Buffer>; a FontSystem holds its font
\* database (db) and the fonts it has loaded and keeps an Arc of (font_cache).
Unused == [kind |-> "unused", db |-> {}, font_cache |-> {}]
Object(kind) == [kind |-> kind, db |-> {}, font_cache |-> {}]

Live(kind) == {h \in Handles : objs[h].kind = kind}
Fresh == {h \in Handles : objs[h].kind = "unused" /\ \A g \in Handles : g < h => objs[g].kind # "unused"}

notBuf == <<handleVars, imgVars, textVars>>
notHandle == <<heap, overflow_checks, bufVars, imgVars, textVars>>
notImg == <<overflow_checks, bufVars, handleVars, textVars>>
notText == <<heap, overflow_checks, bufVars, handleVars, imgVars>>

\* ------------------------------------------------------------------- images
\* SwashContent
SwashContent == {"Mask", "SubpixelMask", "Color"}
\* Placement { left, top, width, height }
Placements == {[left |-> 0, top |-> 0, width |-> 0, height |-> 0],
               [left |-> 1, top |-> 2, width |-> 1, height |-> 1]}

\* #[repr(C)] struct SwashImage { data: ByteBuffer, content, placement }
SwashImage(data, content, placement) ==
    [kind |-> "SwashImage", data |-> data, content |-> content, placement |-> placement]

\* The slot before any image was written to it: zeroed memory.
BlankImage == SwashImage(ByteBuffer(Null, 0, 0), "Mask", [left |-> 0, top |-> 0, width |-> 0, height |-> 0])

\* What SwashCache::get_image_uncached can return: None, or an image whose pixel
\* data is a Vec<u8> (of any length, the empty one of a zero-size glyph and one
\* past i32::MAX included).
EngineImage(data, content, placement) ==
    [kind |-> "image", data |-> data, content |-> content, placement |-> placement]
EngineImages ==
    {EngineImage(d, c, p) :
        d \in SeqsUpTo(MaxLen) \cup {Filled(I32Max), Filled(I32Max + 1)},
        c \in SwashContent, p \in Placements}

\* ---------------------------------------------------------------- text input
\* UTF-16 code units: 'A', '\n', a high surrogate (0xD83D), a low surrogate (0xDE00).
LF == {10}
Units == {65, 55357, 56832} \cup LF

RECURSIVE UnitSeqs(_, _)
UnitSeqs(U, n) ==
    IF n = 0 THEN {<<>>}
    ELSE LET s == UnitSeqs(U, n - 1) IN
         s \cup {Append(x, u) : x \in {y \in s : Len(y) = n - 1}, u \in U}

\* String::from_utf16: a unit outside 0xD800..0xDFFF is its own scalar; a high
\* surrogate followed by a low surrogate is one scalar above 0xFFFF; any other
\* surrogate is an error.
IsHigh(u) == u >= 55296 /\ u <= 56319
IsLow(u) == u >= 56320 /\ u <= 57343
RECURSIVE from_utf16(_)
from_utf16(v) ==
    IF v = <<>> THEN Ok(<<>>)
    ELSE IF ~IsHigh(v[1]) /\ ~IsLow(v[1])
         THEN LET rest == from_utf16(Tail(v)) IN
              IF rest.ok THEN Ok(<<v[1]>> \o rest.v) ELSE Panic
    ELSE IF IsHigh(v[1]) /\ Len(v) >= 2 /\ IsLow(v[2])
         THEN LET rest == from_utf16(Tail(Tail(v))) IN
              IF rest.ok
              THEN Ok(<<65536 + (v[1] - 55296) * 1024 + (v[2] - 56320)>> \o rest.v)
              ELSE Panic
    ELSE Panic

\* A `*const u16` of the host: memory holding code units, null, or an address
\* that is not the host's to read.
Span(units) == [kind |-> "span", units |-> units]
Garbage == [kind |-> "garbage", a |-> 0]

\* std::slice::from_raw_parts(ptr, len)
from_raw_parts(ptr, len) == SubSeq(ptr.units, 1, len)

\* fontdb::Family
Serif == [kind |-> "Serif", name |-> <<>>]
Name(str) == [kind |-> "Name", name |-> str]

\* PrimAttrs
PrimAttrs(color, family, family_len, stretch, style, weight, metadata, cache_key_flags) ==
    [color |-> color, family |-> family, family_len |-> family_len, stretch |-> stretch,
     style |-> style, weight |-> weight, metadata |-> metadata,
     cache_key_flags |-> cache_key_flags]

\* Attrs
Attrs(color_opt, family, stretch, style, weight, metadata, cache_key_flags) ==
    [color_opt |-> color_opt, family |-> family, stretch |-> stretch, style |-> style,
     weight |-> weight, metadata |-> metadata, cache_key_flags |-> cache_key_flags]

Some(x) == [kind |-> "some", v |-> x]

\* ----------------------------------------------- the transfer-buffer machine
Init ==
    /\ heap \in {[a \in Addr |-> FreeBlock],
                 [a \in Addr |-> IF a = MaxAddr THEN Bystander ELSE FreeBlock]}
    /\ status = "ok"
    /\ overflow_checks \in BOOLEAN
    /\ vec = None
    /\ input = None
    /\ bb = None
    /\ origin = "none"
    /\ rebuilt = None
    /\ last = [op |-> "init", arg |-> None, heap |-> [a \in Addr |-> FreeBlock]]
    /\ objs = [h \in Handles |-> Unused]
    /\ strong = [h \in Handles |-> [id \in FontIds |-> 0]]
    /\ out_image = BlankImage
    /\ out_live = FALSE
    /\ buf_text = <<>>
    /\ buf_attrs = None
    /\ buf_shaping = "Advanced"
    /\ buf_width = "wide"
    /\ buf_runs = <<>>
    /\ family_read = FALSE
    /\ pc = "idle"
    /\ cursor = 0
    /\ delivered = <<>>

\* One transfer is followed at a time: the next starts once the last one's
\* allocation has been returned (a leaked block ends the exploration).
Settled ==
    /\ status = "ok" /\ vec = None /\ bb = None /\ rebuilt = None
    /\ \A x \in LiveAddrs(heap) : heap[x] = Bystander

\* Native code builds the Vec<T> it is about to hand over (Vec::with_capacity + push).
VecNew(data, spare, elem, a) ==
    /\ Settled
    /\ LET cap == Len(data) + spare
           ptr == IF cap = 0 THEN Dangling ELSE HeapPtr(a) IN
       /\ cap = 0 \/ a \in FreeAddrs(heap)
       /\ cap # 0 \/ a = 1
       /\ heap' = IF cap = 0 THEN heap ELSE [heap EXCEPT ![a] = Block(data, cap, elem)]
       /\ vec' = Vec(ptr, Len(data), cap, elem)
       /\ input' = None
       /\ origin' = "none"
       /\ last' = Call("vec_new", None)
    /\ UNCHANGED <<status, overflow_checks, bb, rebuilt>>
    /\ UNCHANGED notBuf

\* let b = ByteBuffer::from_vec(bytes)
FromVec ==
    /\ status = "ok" /\ vec # None /\ vec.elem = 1
    /\ LET r == from_vec(vec) IN
       /\ status' = IF r.ok THEN "ok" ELSE "panic"
       /\ bb' = IF r.ok THEN r.v ELSE None
       /\ origin' = IF r.ok THEN "from_vec" ELSE "none"
    /\ input' = [vec |-> vec, data |-> VecData(heap, vec)]
    /\ vec' = None
    /\ last' = Call("from_vec", vec)
    /\ UNCHANGED <<heap, overflow_checks, rebuilt>>
    /\ UNCHANGED notBuf

\* let b = ByteBuffer::from_vec_struct::<T>(bytes)
FromVecStruct ==
    /\ status = "ok" /\ vec # None
    /\ LET r == from_vec_struct(vec, overflow_checks) IN
       /\ status' = IF r.ok THEN "ok" ELSE "panic"
       /\ bb' = IF r.ok THEN r.v ELSE None
       /\ origin' = IF r.ok THEN "from_vec_struct" ELSE "none"
    /\ input' = [vec |-> vec, data |-> VecData(heap, vec)]
    /\ vec' = None
    /\ last' = Call("from_vec_struct", vec)
    /\ UNCHANGED <<heap, overflow_checks, rebuilt>>
    /\ UNCHANGED notBuf

\* The host holds a ByteBuffer it has not populated: a null pointer and whatever
\* its length and capacity fields happen to hold.
HostNullBuffer(length, capacity) ==
    /\ Settled
    /\ bb' = ByteBuffer(Null, length, capacity)
    /\ origin' = "foreign"
    /\ input' = None
    /\ last' = Call("host_null_buffer", None)
    /\ UNCHANGED <<heap, status, overflow_checks, vec, rebuilt>>
    /\ UNCHANGED notBuf

\* The buffer is one a byte-wise destroy may be called on: made from a Vec<u8>,
\* or never populated.
ByteWise == origin \in {"from_vec", "foreign"} \/ (origin = "from_vec_struct" /\ input.vec.elem = 1)

\* let v = b.destroy_into_vec()
DestroyIntoVec ==
    /\ status = "ok" /\ bb # None /\ ByteWise
    /\ LET r == destroy_into_vec(bb) IN
       /\ status' = IF r.ok THEN "ok" ELSE "panic"
       /\ rebuilt' = IF r.ok THEN r.v ELSE None
    /\ bb' = None
    /\ last' = Call("destroy_into_vec", bb)
    /\ UNCHANGED <<heap, overflow_checks, vec, input, origin>>
    /\ UNCHANGED notBuf

\* let v = b.destroy_into_vec_struct::<T>(), with the T the buffer was made from
DestroyIntoVecStruct(elem) ==
    /\ status = "ok" /\ bb # None
    /\ origin = "foreign" \/ (origin \in {"from_vec", "from_vec_struct"} /\ elem = input.vec.elem)
    /\ LET r == destroy_into_vec_struct(bb, elem, overflow_checks) IN
       /\ status' = IF r.ok THEN "ok" ELSE "panic"
       /\ rebuilt' = IF r.ok THEN r.v ELSE None
    /\ bb' = None
    /\ last' = Call("destroy_into_vec_struct", bb)
    /\ UNCHANGED <<heap, overflow_checks, vec, input, origin>>
    /\ UNCHANGED notBuf

\* b.destroy()
Destroy ==
    /\ status = "ok" /\ bb # None /\ ByteWise
    /\ \E o \in destroy(heap, bb) :
          /\ heap' = o.heap
          /\ status' = o.status
    /\ bb' = None
    /\ last' = Call("destroy", bb)
    /\ UNCHANGED <<overflow_checks, vec, input, origin, rebuilt>>
    /\ UNCHANGED notBuf

\* The rebuilt Vec<T> goes out of scope.
VecDrop ==
    /\ status = "ok" /\ rebuilt # None
    /\ \E o \in DropVec(heap, rebuilt) :
          /\ heap' = o.heap
          /\ status' = o.status
    /\ rebuilt' = None
    /\ input' = None
    /\ origin' = "none"
    /\ last' = [op |-> "vec_drop", arg |-> None, heap |-> heap']
    /\ UNCHANGED <<overflow_checks, vec, bb>>
    /\ UNCHANGED notBuf

NextBuf ==
    \/ \E data \in VecInputs, spare \in 0..MaxSpare, elem \in ElemSizes, a \in Addr :
          VecNew(data, spare, elem, a)
    \/ FromVec
    \/ FromVecStruct
    \/ \E length \in I32Min..I32Max, capacity \in {I32Min, -1, 0, 1, I32Max} :
          HostNullBuffer(length, capacity)
    \/ DestroyIntoVec
    \/ \E elem \in ElemSizes : DestroyIntoVecStruct(elem)
    \/ Destroy
    \/ VecDrop

SpecBuf == Init /\ [][NextBuf]_vars

\* -------------------------------------------------- the handle lifecycle
\* HCall: a handle operation's record: the handle, the font id, what it returned
\* and the objects it started from.
HCall(op, ctx, id, ret) ==
    Call(op, [ctx |-> ctx, id |-> id, ret |-> ret, objs |-> objs, strong |-> strong])

\* drop(Box::from_raw(ctx)) of a live object: the box is reclaimed, and a
\* FontSystem drops the Arc<Font> it keeps of every font in its font_cache.
box_drop(o, s, ctx) ==
    [objs |-> [o EXCEPT ![ctx] = [kind |-> "freed", db |-> {}, font_cache |-> {}]],
     strong |-> [s EXCEPT ![ctx] =
                    [id \in FontIds |-> IF id \in o[ctx].font_cache THEN s[ctx][id] - 1 ELSE s[ctx][id]]],
     status |-> "ok"]

\* Box::from_raw(null) dropped: undefined behaviour.  The build may fault on
\* the dereference or get through without a visible effect.
box_drop_null(o, s) ==
    {[objs |-> o, strong |-> s, status |-> "fault"],
     [objs |-> o, strong |-> s, status |-> "ok"]}

\* `if ctx.is_null() { return; }`
null_return(o, s) == {[objs |-> o, strong |-> s, status |-> "ok"]}

New(op, kind) ==
    /\ status = "ok"
    /\ \E h \in Fresh :
          /\ objs' = [objs EXCEPT ![h] = Object(kind)]
          /\ last' = HCall(op, NullHandle, 0, h)
    /\ UNCHANGED <<status, strong>>
    /\ UNCHANGED notHandle

Free(op, ctx, outcomes) ==
    /\ status = "ok"
    /\ \E o \in outcomes :
          /\ objs' = o.objs
          /\ strong' = o.strong
          /\ status' = o.status
    /\ last' = HCall(op, ctx, 0, None)
    /\ UNCHANGED notHandle

fontsystem_new ==
    /\ Fresh # {}
    /\ New("fontsystem_new", "FontSystem")

\* font_system.db_mut().load_font_data(font_data): the database gains a font
\* under an id it did not hold.
fontsystem_register_font(ctx) ==
    /\ status = "ok" /\ ctx \in Live("FontSystem")
    /\ \E id \in FontIds \ objs[ctx].db :
          /\ \A j \in FontIds \ objs[ctx].db : id <= j
          /\ objs' = [objs EXCEPT ![ctx].db = @ \cup {id}]
          /\ last' = HCall("fontsystem_register_font", ctx, id, None)
    /\ UNCHANGED <<status, strong>>
    /\ UNCHANGED notHandle

\* FontSystem::get_font(id) -> Option<Arc<Font>>: None for an id the database
\* does not hold; otherwise the font is loaded into font_cache on first use
\* (one Arc, kept by the catalog) and a clone of that Arc is returned.
get_font(o, s, ctx, id) ==
    IF id \notin o[ctx].db
    THEN [some |-> FALSE, objs |-> o, strong |-> s]
    ELSE [some |-> TRUE,
          objs |-> [o EXCEPT ![ctx].font_cache = @ \cup {id}],
          strong |-> [s EXCEPT ![ctx][id] = (IF id \in o[ctx].font_cache THEN @ ELSE 1) + 1]]

\* The pointer Arc::into_raw returns: the Font of catalog ctx with this id.
FontPtr(ctx, id) == [kind |-> "font", ctx |-> ctx, id |-> id]

\* fontsystem_get_font: null on None; otherwise Arc::into_raw(font), which hands
\* out the pointer and keeps the clone's strong count.
fontsystem_get_font(ctx, font_id) ==
    /\ status = "ok" /\ ctx \in Live("FontSystem")
    /\ strong[ctx][font_id] <= MaxRefs
    /\ LET font == get_font(objs, strong, ctx, font_id) IN
       /\ objs' = font.objs
       /\ strong' = font.strong
       /\ last' = HCall("fontsystem_get_font", ctx, font_id,
                        IF font.some THEN FontPtr(ctx, font_id) ELSE Null)
    /\ UNCHANGED status
    /\ UNCHANGED notHandle

\* fontsystem_free: unsafe { Box::from_raw(ctx) }, with no null test.
fontsystem_free(ctx) ==
    /\ ctx = NullHandle \/ ctx \in Live("FontSystem")
    /\ Free("fontsystem_free", ctx,
            IF ctx = NullHandle THEN box_drop_null(objs, strong) ELSE {box_drop(objs, strong, ctx)})

swashcache_new ==
    /\ Fresh # {}
    /\ New("swashcache_new", "SwashCache")

swashcache_free(ctx) ==
    /\ ctx = NullHandle \/ ctx \in Live("SwashCache")
    /\ Free("swashcache_free", ctx,
            IF ctx = NullHandle THEN null_return(objs, strong) ELSE {box_drop(objs, strong, ctx)})

metrics_new ==
    /\ Fresh # {}
    /\ New("metrics_new", "Metrics")

metrics_free(ctx) ==
    /\ ctx = NullHandle \/ ctx \in Live("Metrics")
    /\ Free("metrics_free", ctx,
            IF ctx = NullHandle THEN null_return(objs, strong) ELSE {box_drop(objs, strong, ctx)})

\* buffer_new(font_system, metrics): Buffer::new(font_system, *metrics), boxed.
buffer_new(font_system, metrics) ==
    /\ font_system \in Live("FontSystem") /\ metrics \in Live("Metrics")
    /\ New("buffer_new", "Buffer")

buffer_free(ctx) ==
    /\ ctx = NullHandle \/ ctx \in Live("Buffer")
    /\ Free("buffer_free", ctx,
            IF ctx = NullHandle THEN null_return(objs, strong) ELSE {box_drop(objs, strong, ctx)})

NextHandle ==
    \/ fontsystem_new
    \/ \E ctx \in Handles : fontsystem_register_font(ctx)
    \/ \E ctx \in Handles, font_id \in FontIds : fontsystem_get_font(ctx, font_id)
    \/ \E ctx \in Handles \cup {NullHandle} : fontsystem_free(ctx)
    \/ swashcache_new
    \/ \E ctx \in Handles \cup {NullHandle} : swashcache_free(ctx)
    \/ metrics_new
    \/ \E ctx \in Handles \cup {NullHandle} : metrics_free(ctx)
    \/ \E font_system \in Handles, metrics \in Handles : buffer_new(font_system, metrics)
    \/ \E ctx \in Handles \cup {NullHandle} : buffer_free(ctx)

SpecHandle == Init /\ [][NextHandle]_vars

\* ------------------------------------------------ rasterized-image transfer
\* Vec<u8>::clone at address c: a new allocation of exactly the length, or none
\* for an empty Vec.
vec_clone(h, data, c) ==
    IF data = <<>> THEN [heap |-> h, vec |-> EmptyVec(1)]
    ELSE [heap |-> [h EXCEPT ![c] = Block(data, Len(data), 1)],
          vec |-> Vec(HeapPtr(c), Len(data), Len(data), 1)]

\* What a call leaves: its return value (FALSE when it aborted before returning),
\* *outSwashImage, the heap and the process status.
Returned(ret, out, h, st) == [ret |-> ret, out |-> out, heap |-> h, status |-> st]

\* swashcache_get_image_uncached that stores an empty image before it reports
\* that none was found.
get_image_uncached_blanking(h, imageMaybe, outSwashImage, c) ==
    IF imageMaybe = None
    THEN Returned(FALSE, SwashImage(ByteBuffer(Dangling, 0, 0), "Mask", BlankImage.placement), h, "ok")
    ELSE LET cl == vec_clone(h, imageMaybe.data, c)
             dataByteBuffer == from_vec(cl.vec) IN
         IF ~dataByteBuffer.ok THEN Returned(FALSE, outSwashImage, cl.heap, "panic")
         ELSE Returned(TRUE,
                       SwashImage(dataByteBuffer.v, imageMaybe.content, imageMaybe.placement),
                       cl.heap, "ok")

\* swashcache_get_image_uncached, given what the cache's get_image_uncached
\* returned (imageMaybe, whose own data the call drops when it returns), the
\* value in *outSwashImage and the address c the clone is allocated at.
get_image_uncached(h, imageMaybe, outSwashImage, c) ==
    IF imageMaybe = None
    THEN Returned(FALSE, outSwashImage, h, "ok")
    ELSE LET cl == vec_clone(h, imageMaybe.data, c)
             dataByteBuffer == from_vec(cl.vec) IN
         IF ~dataByteBuffer.ok THEN Returned(FALSE, outSwashImage, cl.heap, "panic")
         ELSE Returned(TRUE,
                       SwashImage(dataByteBuffer.v, imageMaybe.content, imageMaybe.placement),
                       cl.heap, "ok")

ICall(op, image, ret) ==
    Call(op, [image |-> image, ret |-> ret, out |-> out_image])

\* The engine's image occupies address e while the call runs; the clone is
\* allocated beside it at c, and e is released when the call returns.
swashcache_get_image_uncached(imageMaybe, e, c) ==
    /\ status = "ok" /\ ~out_live
    /\ e \in FreeAddrs(heap) /\ c \in FreeAddrs(heap) /\ e # c
    /\ \A x \in FreeAddrs(heap) : e <= x
    /\ (imageMaybe = None \/ imageMaybe.data = <<>>) => \A x \in FreeAddrs(heap) \ {e} : c <= x
    /\ LET r == get_image_uncached(heap, imageMaybe, out_image, c) IN
       /\ heap' = r.heap
       /\ status' = r.status
       /\ out_image' = r.out
       /\ out_live' = (r.status = "ok" /\ r.ret)
       /\ last' = ICall("swashcache_get_image_uncached", imageMaybe, r.ret)
    /\ UNCHANGED notImg

\* swashimage_free(image): image.data.destroy()
swashimage_free ==
    /\ status = "ok" /\ out_live
    /\ \E o \in destroy(heap, out_image.data) :
          /\ heap' = o.heap
          /\ status' = o.status
    /\ out_live' = FALSE
    /\ last' = ICall("swashimage_free", out_image, FALSE)
    /\ UNCHANGED out_image
    /\ UNCHANGED notImg

NextImage ==
    \/ \E imageMaybe \in EngineImages \cup {None}, e \in Addr, c \in Addr :
          swashcache_get_image_uncached(imageMaybe, e, c)
    \/ swashimage_free

SpecImage == Init /\ [][NextImage]_vars

\* ---------------------------------------------------------- text buffer
\* The family of buffer_set_text decoded whatever family_len holds.
marshal_family_always_decode(prim_attrs) ==
    LET family_text == IF prim_attrs.family.kind = "span"
                       THEN from_raw_parts(prim_attrs.family, prim_attrs.family_len)
                       ELSE <<>>
        family_str == from_utf16(family_text) IN
    IF ~family_str.ok THEN [ok |-> FALSE, family |-> Serif, read |-> TRUE]
    ELSE [ok |-> TRUE, family |-> Name(family_str.v), read |-> TRUE]

\* buffer_set_text, the `match prim_attrs.family_len`: 0 is Serif; anything else
\* reads family_len units at prim_attrs.family and unwraps their decoding.
marshal_family(prim_attrs) ==
    IF prim_attrs.family_len = 0
    THEN [ok |-> TRUE, family |-> Serif, read |-> FALSE]
    ELSE LET family_text == from_raw_parts(prim_attrs.family, prim_attrs.family_len)
             family_str == from_utf16(family_text) IN
         IF ~family_str.ok THEN [ok |-> FALSE, family |-> Serif, read |-> TRUE]
         ELSE [ok |-> TRUE, family |-> Name(family_str.v), read |-> TRUE]

\* buffer_set_text, the `let attrs = Attrs { .. }`
marshal_attrs(prim_attrs, font_family) ==
    Attrs(Some(prim_attrs.color), font_family, prim_attrs.stretch, prim_attrs.style,
          prim_attrs.weight, prim_attrs.metadata, prim_attrs.cache_key_flags)

\* The lines of a text: the pieces between line feeds.
RECURSIVE SplitLines(_, _)
SplitLines(str, line) ==
    IF str = <<>> THEN <<line>>
    ELSE IF str[1] \in LF THEN <<line>> \o SplitLines(Tail(str), <<>>)
    ELSE SplitLines(Tail(str), Append(line, str[1]))

\* LayoutRun { line_i, text, .. }
LayoutRun(line_i, text) == [line_i |-> line_i, text |-> text]

\* The runs shaping lays a line out in: one, or two when the line is longer than
\* one glyph and the buffer is narrow.
LineRuns(i, line, width) ==
    IF width = "narrow" /\ Len(line) >= 2
    THEN <<LayoutRun(i - 1, <<line[1]>>), LayoutRun(i - 1, Tail(line))>>
    ELSE <<LayoutRun(i - 1, line)>>

RECURSIVE Shape(_, _, _)
Shape(lines, i, width) ==
    IF i > Len(lines) THEN <<>>
    ELSE LineRuns(i, lines[i], width) \o Shape(lines, i + 1, width)

TCall(op, arg) == Call(op, arg)

\* buffer_set_size
buffer_set_size(width) ==
    /\ status = "ok" /\ pc = "idle"
    /\ buf_width' = width
    /\ buf_runs' = <<>>
    /\ last' = TCall("buffer_set_size", None)
    /\ UNCHANGED <<status, buf_text, buf_attrs, buf_shaping, family_read, pc, cursor, delivered>>
    /\ UNCHANGED notText

\* buffer_set_text: the family is decoded first, then the text; either unwrap
\* aborts the process.  The engine gets the decoded text, the Attrs and the
\* shaping, and the buffer is unshaped until buffer_shape_until_scroll.
buffer_set_text(text, prim_attrs, shaping) ==
    /\ status = "ok" /\ pc = "idle"
    /\ LET font_family == marshal_family(prim_attrs)
           attrs == marshal_attrs(prim_attrs, font_family.family)
           str == from_utf16(text) IN
       /\ family_read' = font_family.read
       /\ IF font_family.ok /\ str.ok
          THEN /\ buf_text' = str.v
               /\ buf_attrs' = attrs
               /\ buf_shaping' = shaping
               /\ buf_runs' = <<>>
               /\ status' = "ok"
          ELSE /\ status' = "panic"
               /\ UNCHANGED <<buf_text, buf_attrs, buf_shaping, buf_runs>>
    /\ last' = TCall("buffer_set_text", [text |-> text, prim_attrs |-> prim_attrs, shaping |-> shaping])
    /\ UNCHANGED <<buf_width, pc, cursor, delivered>>
    /\ UNCHANGED notText

\* buffer_shape_until_scroll
buffer_shape_until_scroll ==
    /\ status = "ok" /\ pc = "idle"
    /\ buf_runs' = Shape(SplitLines(buf_text, <<>>), 1, buf_width)
    /\ last' = TCall("buffer_shape_until_scroll", None)
    /\ UNCHANGED <<status, buf_text, buf_attrs, buf_shaping, buf_width, family_read, pc, cursor, delivered>>
    /\ UNCHANGED notText

\* layout_get_line_i, layout_get_text_len
layout_get_line_i(ctx) == ctx.line_i
layout_get_text_len(ctx) == Len(ctx.text)

\* buffer_layout_runs ends its loop one run early.
loop_done_early(runs, n) == n + 1 >= Len(runs)

\* buffer_layout_runs, `for run in buffer.layout_runs()`: the iterator is
\* exhausted after it has yielded every run.
loop_done(runs, n) == n >= Len(runs)

\* buffer_layout_runs is called.
buffer_layout_runs_call ==
    /\ status = "ok" /\ pc = "idle"
    /\ pc' = "loop"
    /\ cursor' = 0
    /\ delivered' = <<>>
    /\ last' = TCall("buffer_layout_runs_call", None)
    /\ UNCHANGED <<status, buf_text, buf_attrs, buf_shaping, buf_width, buf_runs, family_read>>
    /\ UNCHANGED notText

\* `callback(&run)`: the iterator yields the next run and the callback is entered.
buffer_layout_runs_callback ==
    /\ pc = "loop" /\ ~loop_done(buf_runs, cursor)
    /\ pc' = "callback"
    /\ cursor' = cursor + 1
    /\ UNCHANGED <<status, last, buf_text, buf_attrs, buf_shaping, buf_width, buf_runs, family_read, delivered>>
    /\ UNCHANGED notText

\* The host's callback reads the run through the accessors and returns.
callback_return ==
    /\ pc = "callback"
    /\ delivered' = Append(delivered, [line_i |-> layout_get_line_i(buf_runs[cursor]),
                                       text_len |-> layout_get_text_len(buf_runs[cursor]),
                                       run |-> cursor])
    /\ pc' = "loop"
    /\ UNCHANGED <<status, last, buf_text, buf_attrs, buf_shaping, buf_width, buf_runs, family_read, cursor>>
    /\ UNCHANGED notText

\* buffer_layout_runs returns.
buffer_layout_runs_return ==
    /\ pc = "loop" /\ loop_done(buf_runs, cursor)
    /\ pc' = "idle"
    /\ last' = TCall("buffer_layout_runs", None)
    /\ UNCHANGED <<status, buf_text, buf_attrs, buf_shaping, buf_width, buf_runs, family_read, cursor, delivered>>
    /\ UNCHANGED notText

\* The descriptors the host passes: two settings of the plain fields, and for the
\* family a null pointer, a pointer it may not read, or a span of code units of
\* which family_len are the name.
Profiles ==
    {[color |-> 0, stretch |-> "Normal", style |-> "Normal", weight |-> 400,
      metadata |-> 0, cache_key_flags |-> 0, shaping |-> "Advanced"],
     [color |-> 1, stretch |-> "Condensed", style |-> "Italic", weight |-> 700,
      metadata |-> 1, cache_key_flags |-> 1, shaping |-> "Basic"]}
FamilyUnits == Units \ LF
Families ==
    {[family |-> p, family_len |-> 0] : p \in {Null, Garbage}}
    \cup UNION {{[family |-> Span(u), family_len |-> n] : n \in 0..Len(u)} :
                   u \in UnitSeqs(FamilyUnits, MaxUnits)}
Descriptor(pr, f) ==
    PrimAttrs(pr.color, f.family, f.family_len, pr.stretch, pr.style, pr.weight,
              pr.metadata, pr.cache_key_flags)
TextSamples == {<<>>, <<65>>, <<55357, 56832, 10, 65>>, <<56832>>}
DefaultProfile == CHOOSE pr \in Profiles : pr.color = 0

NextAttrs ==
    \E text \in TextSamples, pr \in Profiles, f \in Families :
        buffer_set_text(text, Descriptor(pr, f), pr.shaping)

SpecAttrs == Init /\ [][NextAttrs]_vars

NextRuns ==
    \/ \E width \in {"narrow", "wide"} : buffer_set_size(width)
    \/ \E text \in UnitSeqs({65} \cup LF, MaxText) :
          buffer_set_text(text, Descriptor(DefaultProfile, [family |-> Null, family_len |-> 0]),
                          DefaultProfile.shaping)
    \/ buffer_shape_until_scroll
    \/ buffer_layout_runs_call
    \/ buffer_layout_runs_callback
    \/ callback_return
    \/ buffer_layout_runs_return

SpecRuns == Init /\ [][NextRuns]_vars

\* --------------------------------------------------- transfer-buffer claims
FromOps == {"from_vec", "from_vec_struct"}
Produced == last.op \in FromOps /\ status = "ok"

\* C1: destroy_into_vec(from_vec(B)) is B: the same pointer, length and capacity,
\* the same elements; from_vec and destroy_into_vec leave the heap as it was
\* (the allocation is neither copied nor released).
C1_RoundTrip ==
    /\ (last.op = "from_vec" /\ status = "ok") =>
          /\ heap = last.heap
          /\ bb.ptr = input.vec.ptr
    /\ (last.op = "destroy_into_vec" /\ origin = "from_vec") =>
          /\ status = "ok"
          /\ rebuilt = input.vec
          /\ VecData(heap, rebuilt) = input.data
          /\ VecValid(heap, rebuilt)
          /\ heap = last.heap

C1_Witness ==
    /\ last.op = "destroy_into_vec" /\ origin = "from_vec"
    /\ rebuilt # None /\ rebuilt.len >= 1 /\ rebuilt.cap > rebuilt.len
    /\ VecData(heap, rebuilt) = input.data /\ Len(input.data) = rebuilt.len

\* C5: destroy_into_vec_struct::<T>(from_vec_struct(v)) has v's n elements and
\* capacity c over the same allocation.
C5_TypedRoundTrip ==
    (last.op = "destroy_into_vec_struct" /\ origin = "from_vec_struct") =>
        /\ status = "ok"
        /\ rebuilt.ptr = input.vec.ptr
        /\ rebuilt.len = input.vec.len
        /\ rebuilt.cap = input.vec.cap

\* C6: a ByteBuffer that from_vec or from_vec_struct produces holds the true byte
\* counts: a value that does not fit aborts instead of wrapping.
C6_NoWrappedField ==
    Produced =>
        /\ bb.length = input.vec.len * input.vec.elem
        /\ bb.capacity = input.vec.cap * input.vec.elem

\* C8: every produced ByteBuffer has 0 <= length <= capacity and a pointer that
\* is null exactly when the length is zero.
C8_NullIffEmpty ==
    Produced =>
        /\ 0 <= bb.length /\ bb.length <= bb.capacity
        /\ (bb.ptr = Null) <=> (bb.length = 0)

\* C8 as amended: every produced ByteBuffer has a non-null pointer (an empty Vec
\* hands over its dangling pointer), and from_vec's has 0 <= length <= capacity.
C8_NonNullAndOrdered ==
    Produced =>
        /\ bb.ptr # Null
        /\ last.op = "from_vec" => (0 <= bb.length /\ bb.length <= bb.capacity)

C8_Witness ==
    /\ last.op = "from_vec" /\ status = "ok"
    /\ bb.length = 0 /\ bb.ptr = Dangling

\* C9: a ByteBuffer with a null pointer is destroyed into an empty Vec whatever
\* its length and capacity hold, without abort and without a change to the heap.
DestroyOps == {"destroy_into_vec", "destroy_into_vec_struct", "destroy"}
C9_NullIsEmpty ==
    (last.op \in DestroyOps /\ last.arg.ptr = Null) =>
        /\ status = "ok"
        /\ heap = last.heap
        /\ last.op # "destroy" => (rebuilt # None /\ rebuilt.len = 0 /\ rebuilt.cap = 0)

C9_Witness ==
    /\ last.op = "destroy" /\ last.arg.ptr = Null
    /\ last.arg.length < 0 /\ last.arg.capacity < 0
    /\ status = "ok"

\* ------------------------------------------------------------ handle claims
FreeOps == {"fontsystem_free", "swashcache_free", "metrics_free", "buffer_free"}

\* C2: for every object kind, free(null) returns without a fault and leaves every
\* object as it was, and free of a live handle reclaims exactly that object.
C2_FreeNullNoOp ==
    /\ (last.op \in FreeOps /\ last.arg.ctx = NullHandle) =>
          /\ status = "ok"
          /\ objs = last.arg.objs
          /\ strong = last.arg.strong
    /\ (last.op \in FreeOps /\ last.arg.ctx # NullHandle) =>
          /\ status = "ok"
          /\ objs[last.arg.ctx].kind = "freed"
          /\ \A h \in Handles \ {last.arg.ctx} : objs[h] = last.arg.objs[h]

\* C7: fontsystem_get_font returns null exactly for an id the catalog does not
\* hold, and after fontsystem_free no font object of that catalog is left alive,
\* however many lookups came before.
C7_FontsDieWithCatalog ==
    /\ last.op = "fontsystem_get_font" =>
          ((last.arg.ret = Null) <=> (last.arg.id \notin last.arg.objs[last.arg.ctx].db))
    /\ (last.op = "fontsystem_free" /\ last.arg.ctx # NullHandle /\ status = "ok") =>
          \A id \in FontIds : strong[last.arg.ctx][id] = 0

\* ------------------------------------------------------------- image claims
\* The blocks of h other than the one at pointer p.
Others(h, p) == [a \in Addr |-> IF p.kind = "heap" /\ p.a = a THEN FreeBlock ELSE h[a]]

\* C4: when no image is found the call returns false, *outSwashImage is as it was
\* and nothing was allocated; when one is found the call returns true (or the
\* process has aborted on a length past i32::MAX), *outSwashImage holds the
\* image's content and placement and a ByteBuffer over a new allocation with the
\* image's bytes, and one swashimage_free returns that allocation.
C4_NotFoundWritesNothing ==
    /\ (last.op = "swashcache_get_image_uncached" /\ last.arg.image = None) =>
          /\ status = "ok"
          /\ last.arg.ret = FALSE
          /\ out_image = last.arg.out
          /\ heap = last.heap
          /\ ~out_live
    /\ (last.op = "swashcache_get_image_uncached" /\ last.arg.image # None) =>
          /\ (status = "panic") <=> (Len(last.arg.image.data) > I32Max)
          /\ status = "ok" =>
                /\ last.arg.ret = TRUE
                /\ out_image.content = last.arg.image.content
                /\ out_image.placement = last.arg.image.placement
                /\ out_image.data.length = Len(last.arg.image.data)
                /\ out_image.data.capacity >= out_image.data.length
                /\ out_image.data.ptr # Null
                /\ VecValid(heap, destroy_into_vec(out_image.data).v)
                /\ VecData(heap, destroy_into_vec(out_image.data).v) = last.arg.image.data
                /\ out_image.data.ptr.kind = "heap" => ~last.heap[out_image.data.ptr.a].live
                /\ Others(heap, out_image.data.ptr) = last.heap
    /\ last.op = "swashimage_free" =>
          /\ status = "ok"
          /\ heap = Others(last.heap, last.arg.image.data.ptr)
          /\ last.arg.image.data.ptr.kind = "heap" => ~heap[last.arg.image.data.ptr.a].live

C4_Witness ==
    /\ last.op = "swashcache_get_image_uncached" /\ last.arg.image = None
    /\ last.arg.ret = FALSE
    /\ out_image # BlankImage /\ out_image.data.length >= 1

\* -------------------------------------------------------------- text claims
\* What a callback that reads every run through the accessors would have read.
Views(runs) ==
    [i \in 1..Len(runs) |->
        [line_i |-> runs[i].line_i, text_len |-> Len(runs[i].text), run |-> i]]

\* C3: one call of buffer_layout_runs invokes the callback once per run of the
\* buffer, in the iterator's order (line indices never decrease), none skipped or
\* repeated; every invocation has returned when the call returns; with no runs
\* there is no invocation and the call returns.
C3_OncePerRunInOrder ==
    /\ pc = "loop" => delivered = SubSeq(Views(buf_runs), 1, cursor)
    /\ pc = "callback" => (cursor >= 1 /\ delivered = SubSeq(Views(buf_runs), 1, cursor - 1))
    /\ (last.op = "buffer_layout_runs" /\ pc = "idle") =>
          /\ status = "ok"
          /\ delivered = Views(buf_runs)
          /\ \A i, j \in 1..Len(delivered) : i < j => delivered[i].line_i <= delivered[j].line_i

C3_Witness ==
    /\ last.op = "buffer_layout_runs" /\ pc = "idle"
    /\ Len(delivered) >= 3
    /\ delivered[1].line_i = 0 /\ delivered[2].line_i = 0 /\ delivered[3].line_i = 1

\* C10: buffer_set_text hands the engine the Serif family for family_len = 0
\* without reading prim_attrs.family, the family named by the decoded family_len
\* code units otherwise, and color, stretch, style, weight, metadata and cache-key
\* flags as they came.
C10_FamilyDefaulting ==
    (last.op = "buffer_set_text" /\ status = "ok") =>
        LET prim_attrs == last.arg.prim_attrs IN
        /\ prim_attrs.family_len = 0 => (buf_attrs.family = Serif /\ ~family_read)
        /\ prim_attrs.family_len > 0 =>
              /\ family_read
              /\ buf_attrs.family.kind = "Name"
              /\ buf_attrs.family.name =
                    from_utf16(SubSeq(prim_attrs.family.units, 1, prim_attrs.family_len)).v
        /\ buf_attrs.color_opt = Some(prim_attrs.color)
        /\ buf_attrs.stretch = prim_attrs.stretch
        /\ buf_attrs.style = prim_attrs.style
        /\ buf_attrs.weight = prim_attrs.weight
        /\ buf_attrs.metadata = prim_attrs.metadata
        /\ buf_attrs.cache_key_flags = prim_attrs.cache_key_flags

C10_Witness ==
    /\ last.op = "buffer_set_text" /\ status = "ok"
    /\ last.arg.prim_attrs.family_len = 0
    /\ last.arg.prim_attrs.family = Garbage
    /\ last.arg.prim_attrs.color = 1
    /\ buf_attrs.family = Serif

====
